---- MODULE Spec2Model ----
(***************************************************************************)
(* A model of ormosbot's two batch programs.                               *)
(*                                                                         *)
(*   setstatsrendered.main     the incremental crawl: for each tracked     *)
(*                             template, walk the pages that transclude    *)
(*                             it, skip pages whose revision is cached,    *)
(*                             extract the Scryfall queries of the others, *)
(*                             keep the query registry and the revision    *)
(*                             cache, checkpoint and dump them.            *)
(*   update_module_data        the stats run: for every query, one request *)
(*                             per colour category, with the status-based  *)
(*                             branching of fetch_scryfall_stats.          *)
(*                                                                         *)
(* Strings that the code compares, sorts or concatenates are sequences of  *)
(* character codes ("a:b" is <<97, 58, 98>>); page titles are numbers.     *)
(***************************************************************************)
EXTENDS Integers, Sequences, FiniteSets, TLC

VARIABLES
    (* ---- the crawl (setstatsrendered.main) ---- *)
    pc,              \* "iter": inside the template loops; "done": after the final dumps
    tmpl,            \* index into TEMPLATES_TO_CHECK of the template being iterated
    idx,             \* enumerate() index of the next page the generator yields
    seen_pages,      \* main's seen_pages
    queries,         \* main's queries: query -> sequence of page titles
    revision_cache,  \* main's revision_cache: page title -> record
    cache_file,      \* the file at --revision-cache
    output_file,     \* the files at --output-file and its .map sibling
    wiki,            \* page title -> latest_revision_id, as the wiki reports it
    last,            \* what the last loop iteration did, and to which page
    lookups,         \* page title -> number of latest_revision_id reads
    fetched,         \* page title -> number of process_page calls
    registered,      \* page title -> number of register_page_queries calls
    timeout_log,     \* the titles of the "TimeoutError processing" error lines
    dumps,           \* number of times the two dump_* calls ran
    (* ---- the stats run (update_module_data) ---- *)
    spc,             \* position in update_data_module / fetch_scryfall_stats
    input_queries,   \* sorted(set(json.load(input file)))
    qi,              \* index in input_queries of the query being fetched
    ci,              \* index in COLOR_ORDER of the category being fetched
    stats,           \* fetch_scryfall_stats' stats dict
    results,         \* update_data_module's results dict
    response,        \* the response object scryfall_query returned last
    sent,            \* the query strings sent for the current category
    error_log,       \* the log.error lines of the last step
    failures,        \* transport failures of the request being retried
    odd,             \* first responses that were not the nominal one, so far
    input_file,      \* the JSON array at --input-file, until main has read it
    results_keys,    \* the keys of results in insertion order (dict order)
    consumed,        \* responses received for the query being fetched
    lua_code,        \* main's lua_code, a sequence of lines
    switch_code,     \* main's switch_code, a sequence of lines
    (* ---- process_page on its own ---- *)
    epc,             \* "call": before process_page is called; "returned": after
    html,            \* the <a href> elements of the page, in document order
    extracted,       \* what process_page returned
    (* ---- the revision cache file on its own ---- *)
    fpc,             \* "save": before dump_revision_cache; then "saved" or
                     \* "crashed"; after load_revision_cache "loaded" or "raised"
    saved,           \* the mapping handed to dump_revision_cache
    loaded,          \* the mapping load_revision_cache returned
    (* ---- two crawl runs over one listing ---- *)
    listing,         \* per template, the page titles its generator yields
    content,         \* page title -> the links of its rendered HTML
    run,             \* 1: the run from an empty cache; 2: the incremental run
    first_run        \* the registry and the cache the first run ended with

crawl_vars == <<pc, tmpl, idx, seen_pages, queries, revision_cache, cache_file,
                output_file, wiki, last, lookups, fetched, registered,
                timeout_log, dumps>>
stats_vars == <<spc, input_queries, qi, ci, stats, results, response, sent,
                error_log, failures, odd, input_file, results_keys, consumed,
                lua_code, switch_code>>
extract_vars == <<epc, html, extracted>>
file_vars == <<fpc, saved, loaded>>
pair_vars == <<listing, content, run, first_run>>
vars == <<crawl_vars, stats_vars, extract_vars, file_vars, pair_vars>>

(* What a step of one program leaves alone. *)
beside_crawl == <<stats_vars, extract_vars, file_vars, pair_vars>>
beside_stats == <<crawl_vars, extract_vars, file_vars, pair_vars>>

-----------------------------------------------------------------------------
(* Bounds of the model.                                                    *)

NumPages == 2          \* page titles 1..NumPages
MaxYield == 3          \* pages one template's listing yields at most

Pages == 1..NumPages

(* "a:b", "t:c" and the colon-free "x" *)
QA == <<97, 58, 98>>
QB == <<116, 58, 99>>
QX == <<120>>

-----------------------------------------------------------------------------
(* Strings.                                                                *)

(* Python's str order: by code point, a proper prefix first. *)
StrLess(a, b) ==
    \/ /\ Len(a) < Len(b)
       /\ \A i \in 1..Len(a) : a[i] = b[i]
    \/ \E i \in 1..Len(a) :
          /\ i <= Len(b)
          /\ a[i] < b[i]
          /\ \A j \in 1..(i - 1) : a[j] = b[j]

(* sorted(S) of a finite set of strings. *)
RECURSIVE sorted(_)
sorted(S) ==
    IF S = {} THEN <<>>
    ELSE LET m == CHOOSE x \in S : \A y \in S \ {x} : StrLess(x, y)
         IN <<m>> \o sorted(S \ {m})

Range(s) == {s[i] : i \in 1..Len(s)}

(* ":" in search *)
HasColon(search) == \E i \in 1..Len(search) : search[i] = 58

-----------------------------------------------------------------------------
(* The query extractor (process_page).                                     *)
(* A link is what the code reads of an <a href>: whether the href holds    *)
(* "scryfall.com/search?q=", the values parse_qs gives for q (in order;    *)
(* none when there is no q parameter), and whether parse_qs gives a        *)
(* utm_source parameter.                                                   *)

Link(sig, q, utm_source) == [sig |-> sig, q |-> q, utm_source |-> utm_source]

(* "T:c", which differs from "t:c" in letter case only *)
QT == <<84, 58, 99>>

(* The rendered pages the wiki serves: no link; one query link; two query  *)
(* links out of order; the same link twice; a tracking link and a          *)
(* colon-free search; a link elsewhere and a link with two q parameters.   *)
ParsedPages ==
    { <<>>,
      <<Link(TRUE, <<QA>>, FALSE)>>,
      <<Link(TRUE, <<QB>>, FALSE), Link(TRUE, <<QA>>, FALSE)>>,
      <<Link(TRUE, <<QA>>, FALSE), Link(TRUE, <<QA>>, FALSE)>>,
      <<Link(TRUE, <<QA>>, TRUE), Link(TRUE, <<QX>>, FALSE)>>,
      <<Link(FALSE, <<QA>>, FALSE), Link(TRUE, <<QB, QA>>, FALSE)>> }

(* The utm_source test is dropped: tracking links are accepted too. *)
AcceptsLinkWithTracking(link) ==
    /\ link.sig
    /\ link.q # <<>>
    /\ HasColon(link.q[1])

AcceptsLink(link) ==
    /\ link.sig
    /\ link.q # <<>>
    /\ ~link.utm_source
    /\ HasColon(link.q[1])

process_page(parsed_page) ==
    sorted({parsed_page[i].q[1] : i \in {j \in 1..Len(parsed_page) : AcceptsLink(parsed_page[j])}})

-----------------------------------------------------------------------------
(* The query registry.                                                     *)

(* queries.setdefault(search, []).append(page_title) *)
RegisterOne(page_title, search, qs) ==
    IF search \in DOMAIN qs
    THEN [qs EXCEPT ![search] = Append(@, page_title)]
    ELSE [s \in DOMAIN qs \cup {search} |-> IF s = search THEN <<page_title>> ELSE qs[s]]

RECURSIVE register_page_queries(_, _, _)
register_page_queries(page_title, page_queries, qs) ==
    IF page_queries = <<>> THEN qs
    ELSE register_page_queries(page_title, Tail(page_queries),
                               RegisterOne(page_title, Head(page_queries), qs))

(* The two files dump_queries_to_file writes. *)
dump_queries_to_file(qs) ==
    [exists |-> TRUE, list |-> sorted(DOMAIN qs), map |-> qs]

NoOutput == [exists |-> FALSE, list |-> <<>>, map |-> <<>>]

-----------------------------------------------------------------------------
(* The revision cache.                                                     *)

(* revision.timestamp.isoformat(): the wiki stamps each revision once. *)
Timestamp(rev_id) == <<"saved", rev_id>>

current_revision_record(rev_id, has_queries, page_queries) ==
    [rev_id |-> rev_id, timestamp |-> Timestamp(rev_id),
     has_queries |-> has_queries,
     queries |-> IF has_queries THEN page_queries ELSE <<>>]

(* The records a cache file holds for one page (rev_id, timestamp and the   *)
(* optional queries array of strings): a stale revision; the current one   *)
(* without queries, with no query, with two queries, with a query twice.   *)
CacheRecords ==
    { current_revision_record(41, TRUE, <<QA>>),
      current_revision_record(42, FALSE, <<>>),
      current_revision_record(42, TRUE, <<>>),
      current_revision_record(42, TRUE, <<QA, QB>>),
      current_revision_record(42, TRUE, <<QA, QA>>) }

CacheMaps == UNION {[D -> CacheRecords] : D \in SUBSET Pages}

dump_revision_cache(cache) == [state |-> "json", data |-> cache]

MissingFile == [state |-> "missing", data |-> <<>>]
MalformedFile == [state |-> "malformed", data |-> <<>>]

(* A file whose text is JSON but not an object, such as [] *)
NotAnObjectFile == [state |-> "not_an_object", data |-> <<>>]

(* A file whose bytes are not UTF-8: path.open("r", encoding="utf-8") *)
(* cannot decode it.                                                       *)
UndecodableFile == [state |-> "undecodable", data |-> <<>>]

(* json.dump(..., ensure_ascii=False) writes a character above 127 as a    *)
(* multi-byte UTF-8 sequence.                                              *)
HasMultiByte(cache) ==
    \E p \in DOMAIN cache : \E i \in 1..Len(cache[p].queries) :
        \E k \in 1..Len(cache[p].queries[i]) : cache[p].queries[i][k] > 127

(* What a save that dies after path.open("w") leaves: a proper prefix of   *)
(* the text (empty at first). No prefix is a JSON document; one that ends  *)
(* inside a multi-byte sequence is not UTF-8 either.                       *)
TruncatedFiles(cache) ==
    {MalformedFile} \cup (IF HasMultiByte(cache) THEN {UndecodableFile} ELSE {})

(* json.load raises an exception that is not json.JSONDecodeError: the     *)
(* except clause lets the UnicodeDecodeError of f.read() through.          *)
load_raises(file) == file.state = "undecodable"

load_revision_cache(file) ==
    IF file.state = "json" THEN file.data ELSE <<>>

NoEntry == [rev_id |-> 0, timestamp |-> <<>>, has_queries |-> FALSE, queries |-> <<>>]

(* revision_cache.get(page_title) *)
Entry(cache, page_title) ==
    IF page_title \in DOMAIN cache THEN cache[page_title] ELSE NoEntry

-----------------------------------------------------------------------------
(* The crawl: setstatsrendered.main.                                       *)

TEMPLATES_TO_CHECK == <<"Template:Scryfall stats", "Template:Scryfall count">>

CheckpointEvery == 100

Bump(counter, page_title) == [counter EXCEPT ![page_title] = @ + 1]

(* if page_title in seen_pages *)
IsSeen(seen, page_title) == page_title \in seen

(* The add is forgotten. *)
SeenAfterForgets(seen, page_title) == seen

(* seen_pages.add(page_title) *)
SeenAfter(seen, page_title) == seen \cup {page_title}

(* "if not cached_queries" in place of "if cached_queries is None": an     *)
(* empty cached list is reprocessed.                                       *)
CacheHitNonEmpty(cache, page_title, latest_rev_id) ==
    /\ page_title \in DOMAIN cache
    /\ cache[page_title].rev_id = latest_rev_id
    /\ cache[page_title].has_queries
    /\ cache[page_title].queries # <<>>

(* cached_revision and cached_revision.get("rev_id") == latest_rev_id, and *)
(* cached_revision.get("queries") is not None                              *)
CacheHit(cache, page_title, latest_rev_id) ==
    /\ page_title \in DOMAIN cache
    /\ cache[page_title].rev_id = latest_rev_id
    /\ cache[page_title].has_queries

(* The record is written without its queries field. *)
CacheAfterExtractWithoutQueries(cache, page_title, latest_rev_id, page_queries) ==
    [t \in DOMAIN cache \cup {page_title} |->
        IF t = page_title
        THEN current_revision_record(latest_rev_id, FALSE, <<>>)
        ELSE cache[t]]

(* revision_cache[page_title] = current_revision_record(page, latest_rev_id, page_queries) *)
CacheAfterExtract(cache, page_title, latest_rev_id, page_queries) ==
    [t \in DOMAIN cache \cup {page_title} |->
        IF t = page_title
        THEN current_revision_record(latest_rev_id, TRUE, page_queries)
        ELSE cache[t]]

(* if (idx + 1) % 100 == 0 *)
ShouldCheckpoint(i) == (i + 1) % CheckpointEvery = 0

Event(kind, page_title, page_queries) ==
    [kind |-> kind, page |-> page_title, page_queries |-> page_queries]

(* The generator yields a page that is in seen_pages: continue. *)
Duplicate(p) ==
    /\ pc = "iter"
    /\ IsSeen(seen_pages, p)
    /\ idx' = idx + 1
    /\ last' = Event("duplicate", p, <<>>)
    /\ UNCHANGED <<pc, tmpl, seen_pages, queries, revision_cache, cache_file,
                   output_file, wiki, lookups, fetched, registered, timeout_log, dumps>>
    /\ UNCHANGED beside_crawl

(* The page is skipped and its cached queries are not registered. *)
SkipUnchangedUnregistered(p) ==
    /\ pc = "iter"
    /\ ~IsSeen(seen_pages, p)
    /\ CacheHit(revision_cache, p, wiki[p])
    /\ idx' = idx + 1
    /\ seen_pages' = SeenAfter(seen_pages, p)
    /\ lookups' = Bump(lookups, p)
    /\ last' = Event("skipped", p, revision_cache[p].queries)
    /\ UNCHANGED <<pc, tmpl, queries, revision_cache, cache_file, output_file, wiki,
                   fetched, registered, timeout_log, dumps>>
    /\ UNCHANGED beside_crawl

(* A new page whose cached revision is current and carries queries: the   *)
(* cached queries are registered, nothing is fetched.                      *)
SkipUnchanged(p) ==
    /\ pc = "iter"
    /\ ~IsSeen(seen_pages, p)
    /\ CacheHit(revision_cache, p, wiki[p])
    /\ idx' = idx + 1
    /\ seen_pages' = SeenAfter(seen_pages, p)
    /\ lookups' = Bump(lookups, p)
    /\ queries' = register_page_queries(p, revision_cache[p].queries, queries)
    /\ registered' = Bump(registered, p)
    /\ last' = Event("skipped", p, revision_cache[p].queries)
    /\ UNCHANGED <<pc, tmpl, revision_cache, cache_file, output_file, wiki,
                   fetched, timeout_log, dumps>>
    /\ UNCHANGED beside_crawl

(* A new page without a usable cache entry, whose rendered content arrives: *)
(* extract, register, record the revision, and checkpoint on the 100th     *)
(* enumerate index.                                                        *)
ExtractPage(p, parsed_page) ==
    /\ pc = "iter"
    /\ ~IsSeen(seen_pages, p)
    /\ ~CacheHit(revision_cache, p, wiki[p])
    /\ LET page_queries == process_page(parsed_page)
           new_queries == register_page_queries(p, page_queries, queries)
           new_cache == CacheAfterExtract(revision_cache, p, wiki[p], page_queries)
       IN /\ idx' = idx + 1
          /\ seen_pages' = SeenAfter(seen_pages, p)
          /\ lookups' = Bump(lookups, p)
          /\ fetched' = Bump(fetched, p)
          /\ queries' = new_queries
          /\ registered' = Bump(registered, p)
          /\ revision_cache' = new_cache
          /\ last' = Event("extracted", p, page_queries)
          /\ IF ShouldCheckpoint(idx)
             THEN /\ output_file' = dump_queries_to_file(new_queries)
                  /\ cache_file' = dump_revision_cache(new_cache)
                  /\ dumps' = dumps + 1
             ELSE UNCHANGED <<output_file, cache_file, dumps>>
    /\ UNCHANGED <<pc, tmpl, wiki, timeout_log>>
    /\ UNCHANGED beside_crawl

(* The cache record is written before the fetch, so a timeout leaves it.   *)
TimeoutPageRecords(p) ==
    /\ pc = "iter"
    /\ ~IsSeen(seen_pages, p)
    /\ ~CacheHit(revision_cache, p, wiki[p])
    /\ idx' = idx + 1
    /\ seen_pages' = SeenAfter(seen_pages, p)
    /\ lookups' = Bump(lookups, p)
    /\ fetched' = Bump(fetched, p)
    /\ timeout_log' = timeout_log \cup {p}
    /\ revision_cache' = CacheAfterExtract(revision_cache, p, wiki[p], <<>>)
    /\ last' = Event("timeout", p, <<>>)
    /\ UNCHANGED <<pc, tmpl, queries, cache_file, output_file,
                   wiki, registered, dumps>>
    /\ UNCHANGED beside_crawl

(* No except clause: the timeout ends the run. *)
TimeoutPageAborts(p) ==
    /\ pc = "iter"
    /\ ~IsSeen(seen_pages, p)
    /\ ~CacheHit(revision_cache, p, wiki[p])
    /\ pc' = "aborted"
    /\ idx' = idx + 1
    /\ seen_pages' = SeenAfter(seen_pages, p)
    /\ lookups' = Bump(lookups, p)
    /\ fetched' = Bump(fetched, p)
    /\ last' = Event("timeout", p, <<>>)
    /\ UNCHANGED <<tmpl, queries, revision_cache, cache_file, output_file,
                   wiki, registered, timeout_log, dumps>>
    /\ UNCHANGED beside_crawl

(* A new page without a usable cache entry, whose fetch raises             *)
(* pywikibot.exceptions.TimeoutError inside process_page: log, continue.   *)
TimeoutPage(p) ==
    /\ pc = "iter"
    /\ ~IsSeen(seen_pages, p)
    /\ ~CacheHit(revision_cache, p, wiki[p])
    /\ idx' = idx + 1
    /\ seen_pages' = SeenAfter(seen_pages, p)
    /\ lookups' = Bump(lookups, p)
    /\ fetched' = Bump(fetched, p)
    /\ timeout_log' = timeout_log \cup {p}
    /\ last' = Event("timeout", p, <<>>)
    /\ UNCHANGED <<pc, tmpl, queries, revision_cache, cache_file, output_file,
                   wiki, registered, dumps>>
    /\ UNCHANGED beside_crawl

(* The generator of a template that is not the last one is exhausted: the  *)
(* outer loop moves to the next template, enumerate restarts at 0.         *)
NextTemplate ==
    /\ pc = "iter"
    /\ tmpl < Len(TEMPLATES_TO_CHECK)
    /\ tmpl' = tmpl + 1
    /\ idx' = 0
    /\ last' = Event("template", 0, <<>>)
    /\ UNCHANGED <<pc, seen_pages, queries, revision_cache, cache_file,
                   output_file, wiki, lookups, fetched, registered, timeout_log, dumps>>
    /\ UNCHANGED beside_crawl

(* The revision cache dump after the loops is left out. *)
FinishWithoutCacheDump ==
    /\ pc = "iter"
    /\ tmpl = Len(TEMPLATES_TO_CHECK)
    /\ pc' = "done"
    /\ output_file' = dump_queries_to_file(queries)
    /\ dumps' = dumps + 1
    /\ last' = Event("finish", 0, <<>>)
    /\ UNCHANGED <<tmpl, idx, seen_pages, queries, revision_cache, cache_file, wiki,
                   lookups, fetched, registered, timeout_log>>
    /\ UNCHANGED beside_crawl

(* The generator of the last template is exhausted: both loops end and the *)
(* two dumps after them run.                                               *)
Finish ==
    /\ pc = "iter"
    /\ tmpl = Len(TEMPLATES_TO_CHECK)
    /\ pc' = "done"
    /\ output_file' = dump_queries_to_file(queries)
    /\ cache_file' = dump_revision_cache(revision_cache)
    /\ dumps' = dumps + 1
    /\ last' = Event("finish", 0, <<>>)
    /\ UNCHANGED <<tmpl, idx, seen_pages, queries, revision_cache, wiki,
                   lookups, fetched, registered, timeout_log>>
    /\ UNCHANGED beside_crawl

CacheFiles == {MissingFile, MalformedFile} \cup {dump_revision_cache(c) : c \in CacheMaps}

StatsIdle ==
    /\ spc = "idle"
    /\ input_queries = <<>>
    /\ qi = 0
    /\ ci = 0
    /\ stats = <<>>
    /\ results = <<>>
    /\ response = <<>>
    /\ sent = <<>>
    /\ error_log = <<>>
    /\ failures = 0
    /\ odd = 0
    /\ input_file = <<>>
    /\ results_keys = <<>>
    /\ consumed = 0
    /\ lua_code = <<>>
    /\ switch_code = <<>>

ExtractIdle ==
    /\ epc = "idle"
    /\ html = <<>>
    /\ extracted = <<>>

FileIdle ==
    /\ fpc = "idle"
    /\ saved = <<>>
    /\ loaded = <<>>

PairIdle ==
    /\ listing = <<>>
    /\ content = <<>>
    /\ run = 0
    /\ first_run = <<>>

CrawlStart(titles) ==
    /\ pc = "iter"
    /\ tmpl = 1
    /\ idx = 0
    /\ seen_pages = {}
    /\ queries = <<>>
    /\ output_file = NoOutput
    /\ last = Event("start", 0, <<>>)
    /\ lookups = [p \in titles |-> 0]
    /\ fetched = [p \in titles |-> 0]
    /\ registered = [p \in titles |-> 0]
    /\ timeout_log = {}
    /\ dumps = 0

Init ==
    /\ CrawlStart(Pages)
    /\ wiki = [p \in Pages |-> 42]
    /\ cache_file \in CacheFiles
    /\ revision_cache = load_revision_cache(cache_file)
    /\ StatsIdle
    /\ ExtractIdle
    /\ FileIdle
    /\ PairIdle

(* The pages the generator of the current template may yield next. *)
Listed == IF idx < MaxYield THEN Pages ELSE {}

Next ==
    \/ \E p \in Listed : Duplicate(p)
    \/ \E p \in Listed : SkipUnchanged(p)
    \/ \E p \in Listed, parsed_page \in ParsedPages : ExtractPage(p, parsed_page)
    \/ \E p \in Listed : TimeoutPage(p)
    \/ NextTemplate
    \/ Finish

(* The program is one thread that runs until main returns: every call it   *)
(* makes returns or raises, so a step that can be taken is taken.          *)
Spec == Init /\ [][Next]_vars /\ WF_vars(Next)

-----------------------------------------------------------------------------
(* The crawl over a listing long enough to reach a checkpoint: the first   *)
(* template lists the pages 1, 2, ... in order, the second lists page 1    *)
(* again. Every page renders one query link; only the fetch of a page      *)
(* whose title is a multiple of CheckpointEvery may time out, and the      *)
(* cache file is missing or holds that page's current revision.            *)

LongYield == 101       \* pages the first template's listing yields at most

LongListed ==
    IF tmpl = 1
    THEN IF idx < LongYield THEN {idx + 1} ELSE {}
    ELSE IF idx = 0 THEN {1} ELSE {}

LongInit ==
    /\ CrawlStart(1..LongYield)
    /\ wiki = [p \in 1..LongYield |-> 42]
    /\ cache_file \in
          { MissingFile,
            dump_revision_cache([p \in {CheckpointEvery} |->
                                    current_revision_record(42, TRUE, <<QA>>)]) }
    /\ revision_cache = load_revision_cache(cache_file)
    /\ StatsIdle
    /\ ExtractIdle
    /\ FileIdle
    /\ PairIdle

LongNext ==
    \/ \E p \in LongListed : Duplicate(p)
    \/ \E p \in LongListed : SkipUnchanged(p)
    \/ \E p \in LongListed : ExtractPage(p, <<Link(TRUE, <<QA>>, FALSE)>>)
    \/ \E p \in {t \in LongListed : t % CheckpointEvery = 0} : TimeoutPage(p)
    \/ NextTemplate
    \/ Finish

LongSpec == LongInit /\ [][LongNext]_vars /\ WF_vars(LongNext)

-----------------------------------------------------------------------------
(* The stats run: update_module_data.                                      *)

MaxInput == 2               \* entries of the input file at most
MaxOddResponses == 2        \* first responses other than the nominal one, per run
MaxTransportFailures == 1   \* failures the retry wrapper absorbs per request

(* "c", "w", "u", "b", "r", "g", "m" *)
COLOR_ORDER == <<(<<99>>), (<<119>>), (<<117>>), (<<98>>), (<<114>>), (<<103>>), (<<109>>)>>

(* str.lower() on ASCII *)
lower(str) == [i \in 1..Len(str) |-> IF str[i] >= 65 /\ str[i] <= 90 THEN str[i] + 32 ELSE str[i]]

(* f"({query}) id={color}" *)
full_query(query, color) == <<40>> \o query \o <<41, 32, 105, 100, 61>> \o color

(* f"{query} id={color}" *)
no_brackets(query, color) == query \o <<32, 105, 100, 61>> \o color

(* str(value) of a natural number: its decimal digits, as character codes. *)
RECURSIVE str(_)
str(n) == IF n < 10 THEN <<48 + n>> ELSE str(n \div 10) \o <<48 + (n % 10)>>

(* A received response: its status code, whether its text holds "Display   *)
(* options", and the total_cards of its JSON payload, if any.              *)
Response(status_code, display_options, has_total, total_cards) ==
    [status_code |-> status_code, display_options |-> display_options,
     has_total |-> has_total, total_cards |-> total_cards]

Nominal == Response(200, FALSE, TRUE, 7)

Responses ==
    { Nominal,
      Response(200, FALSE, TRUE, 12),
      Response(200, FALSE, FALSE, 0),
      Response(404, FALSE, FALSE, 0),
      Response(400, TRUE, FALSE, 0),
      Response(400, FALSE, FALSE, 0),
      Response(500, FALSE, FALSE, 0) }

(* response.ok *)
ok(r) == r.status_code < 400

(* data.get("total_cards", 0) *)
total_cards(r) == IF r.has_total THEN r.total_cards ELSE 0

(* The 404 test is dropped: a 404 falls through to the error branch. *)
IsNotFoundNever(r) == FALSE

(* response.status_code == 404 *)
IsNotFound(r) == r.status_code = 404

(* response.status_code == 400 and "Display options" in str(response.text) *)
IsDisplayOptions(r) == r.status_code = 400 /\ r.display_options

(* stats[color.lower()] = value *)
Set(st, color, value) ==
    [k \in DOMAIN st \cup {lower(color)} |-> IF k = lower(color) THEN value ELSE st[k]]

ErrorLine(query, r) == [query |-> query, status_code |-> r.status_code]

CurrentQuery == input_queries[qi]
CurrentColor == COLOR_ORDER[ci]

(* The rest of the loops once a category is settled with stats st: the     *)
(* next category; or, after the last one, fetch_scryfall_stats returns,    *)
(* update_data_module stores the stringified stats and takes the next      *)
(* query, or returns after the last one.                                   *)
Continue(st) ==
    IF ci < Len(COLOR_ORDER)
    THEN /\ ci' = ci + 1
         /\ stats' = st
         /\ spc' = "request"
         /\ UNCHANGED <<qi, results, results_keys>>
    ELSE /\ results_keys' = IF CurrentQuery \in DOMAIN results
                            THEN results_keys
                            ELSE Append(results_keys, CurrentQuery)
         /\ results' = [q \in DOMAIN results \cup {CurrentQuery} |->
                           IF q = CurrentQuery
                           THEN [k \in DOMAIN st |-> str(st[k])]
                           ELSE results[q]]
         /\ stats' = <<>>
         /\ ci' = 1
         /\ qi' = qi + 1
         /\ spc' = IF qi < Len(input_queries) THEN "request" ELSE "done"

(* The failure is taken for an answer: the category is recorded as 0 and   *)
(* the loops go on.                                                        *)
TransportFailureRecordsZero ==
    /\ spc \in {"request", "fallback_request"}
    /\ failures < MaxTransportFailures
    /\ failures' = failures + 1
    /\ Continue(Set(stats, CurrentColor, 0))
    /\ error_log' = <<>>
    /\ UNCHANGED <<input_queries, response, sent, odd,
                   input_file, consumed, lua_code, switch_code>>
    /\ UNCHANGED beside_stats

(* scryfall_query raises before a response arrives: @retry calls it again. *)
TransportFailure ==
    /\ spc \in {"request", "fallback_request"}
    /\ failures < MaxTransportFailures
    /\ failures' = failures + 1
    /\ error_log' = <<>>
    /\ UNCHANGED <<spc, input_queries, qi, ci, stats, results, response, sent, odd,
                   input_file, results_keys, consumed, lua_code, switch_code>>
    /\ UNCHANGED beside_stats

(* response = scryfall_query(session, full_query) *)
Respond(r) ==
    /\ spc = "request"
    /\ r = Nominal \/ odd < MaxOddResponses
    /\ odd' = IF r = Nominal THEN odd ELSE odd + 1
    /\ response' = r
    /\ sent' = <<full_query(CurrentQuery, CurrentColor)>>
    /\ consumed' = IF ci = 1 THEN 1 ELSE consumed + 1
    /\ error_log' = <<>>
    /\ spc' = "branch"
    /\ failures' = 0
    /\ UNCHANGED <<input_queries, qi, ci, stats, results,
                   input_file, results_keys, lua_code, switch_code>>
    /\ UNCHANGED beside_stats

(* The if / elif chain on the first response. *)
Branch ==
    /\ spc = "branch"
    /\ IF ok(response)
       THEN /\ Continue(Set(stats, CurrentColor, total_cards(response)))
            /\ error_log' = <<>>
       ELSE IF IsNotFound(response)
       THEN /\ Continue(Set(stats, CurrentColor, 0))
            /\ error_log' = <<>>
       ELSE IF IsDisplayOptions(response)
       THEN /\ spc' = "fallback_request"
            /\ error_log' = <<>>
            /\ UNCHANGED <<qi, ci, stats, results, results_keys>>
       ELSE /\ Continue(Set(stats, CurrentColor, 0))
            /\ error_log' = <<ErrorLine(full_query(CurrentQuery, CurrentColor), response)>>
    /\ UNCHANGED <<input_queries, response, sent, failures, odd,
                   input_file, consumed, lua_code, switch_code>>
    /\ UNCHANGED beside_stats

(* response = scryfall_query(session, no_brackets) *)
FallbackRespond(r) ==
    /\ spc = "fallback_request"
    /\ response' = r
    /\ sent' = Append(sent, no_brackets(CurrentQuery, CurrentColor))
    /\ consumed' = consumed + 1
    /\ error_log' = <<>>
    /\ spc' = "fallback_branch"
    /\ failures' = 0
    /\ UNCHANGED <<input_queries, qi, ci, stats, results, odd,
                   input_file, results_keys, lua_code, switch_code>>
    /\ UNCHANGED beside_stats

(* A fallback response that is neither ok nor 404 makes the fallback       *)
(* request be sent again.                                                  *)
FallbackBranchAsksAgain ==
    /\ spc = "fallback_branch"
    /\ IF ok(response)
       THEN Continue(Set(stats, CurrentColor, total_cards(response)))
       ELSE IF IsNotFound(response)
       THEN Continue(Set(stats, CurrentColor, 0))
       ELSE spc' = "fallback_request" /\ UNCHANGED <<qi, ci, stats, results, results_keys>>
    /\ error_log' = <<>>
    /\ UNCHANGED <<input_queries, response, sent, failures, odd,
                   input_file, consumed, lua_code, switch_code>>
    /\ UNCHANGED beside_stats

(* The inner if / elif on the fallback response: it has no else. *)
FallbackBranch ==
    /\ spc = "fallback_branch"
    /\ IF ok(response)
       THEN Continue(Set(stats, CurrentColor, total_cards(response)))
       ELSE IF IsNotFound(response)
       THEN Continue(Set(stats, CurrentColor, 0))
       ELSE Continue(stats)
    /\ error_log' = <<>>
    /\ UNCHANGED <<input_queries, response, sent, failures, odd,
                   input_file, consumed, lua_code, switch_code>>
    /\ UNCHANGED beside_stats

-----------------------------------------------------------------------------
(* The renderers: lua_from_mapping and switch_from_mapping. A mapping is   *)
(* a dict: its keys in insertion order and the value of each key. The      *)
(* rendered text is the sequence of the lines that "\n".join puts          *)
(* together.                                                               *)

Dict(keys, map) == [keys |-> keys, map |-> map]

RECURSIVE Join(_, _)
Join(strs, sep) ==
    IF Len(strs) = 0 THEN <<>>
    ELSE IF Len(strs) = 1 THEN strs[1]
    ELSE strs[1] \o sep \o Join(Tail(strs), sep)

RECURSIVE Flatten(_)
Flatten(seqs) == IF seqs = <<>> THEN <<>> ELSE Head(seqs) \o Flatten(Tail(seqs))

RECURSIVE sum(_)
sum(values) == IF values = <<>> THEN 0 ELSE Head(values) + sum(Tail(values))

(* int(s) of a decimal numeral *)
RECURSIVE int(_)
int(s) == IF s = <<>> THEN 0 ELSE 10 * int(SubSeq(s, 1, Len(s) - 1)) + (s[Len(s)] - 48)

(* The case of the query is kept. *)
casefold_keeps_case(s) == s

(* str.casefold(): the letters A-Z and the upper-case letters of Latin-1   *)
(* go to lower case, the sharp s becomes "ss".                             *)
RECURSIVE casefold(_)
casefold(s) ==
    IF s = <<>> THEN <<>>
    ELSE LET ch == Head(s)
             folded == IF ch >= 65 /\ ch <= 90 THEN <<ch + 32>>
                       ELSE IF ch >= 192 /\ ch <= 222 /\ ch # 215 THEN <<ch + 32>>
                       ELSE IF ch = 223 THEN <<115, 115>>
                       ELSE <<ch>>
         IN folded \o casefold(Tail(s))

(* A missing category is rendered as 1. *)
get_or_one(stats_of_query, color) ==
    IF color \in DOMAIN stats_of_query THEN stats_of_query[color] ELSE <<49>>

(* stats.get(color, "0") *)
get(stats_of_query, color) ==
    IF color \in DOMAIN stats_of_query THEN stats_of_query[color] ELSE <<48>>

(* "-- Auto-generated data. Edit carefully." and "return {" *)
LuaHeader ==
    << <<45, 45, 32, 65, 117, 116, 111, 45, 103, 101, 110, 101, 114, 97,
      116, 101, 100, 32, 100, 97, 116, 97, 46, 32, 69, 100, 105, 116,
      32, 99, 97, 114, 101, 102, 117, 108, 108, 121, 46>>,
       <<114, 101, 116, 117, 114, 110, 32, 123>> >>

(* color_chunks = [f"{color} = {stats.get(color, '0')}" for color in COLOR_ORDER] *)
color_chunks(stats_of_query) ==
    [i \in 1..Len(COLOR_ORDER) |->
        COLOR_ORDER[i] \o <<32, 61, 32>> \o get(stats_of_query, COLOR_ORDER[i])]

(* The three lines of one query: "    ['query'] = {", the chunks joined by *)
(* ", " after eight spaces, and "    },".                                  *)
lua_entry(query, stats_of_query) ==
    << <<32, 32, 32, 32, 91, 39>> \o query \o <<39, 93, 32, 61, 32, 123>>,
       <<32, 32, 32, 32, 32, 32, 32, 32>> \o Join(color_chunks(stats_of_query), <<44, 32>>),
       <<32, 32, 32, 32, 125, 44>> >>

lua_from_mapping(data) ==
    LuaHeader
    \o Flatten([i \in 1..Len(data.keys) |-> lua_entry(data.keys[i], data.map[data.keys[i]])])
    \o << <<125>>, <<>> >>

(* "<noinclude>Auto-generated data. Edit carefully.</noinclude>" and       *)
(* "{{#switch:{{lc:{{{query|}}}}}"                                         *)
SwitchHeader ==
    << <<60, 110, 111, 105, 110, 99, 108, 117, 100, 101, 62, 65, 117, 116,
      111, 45, 103, 101, 110, 101, 114, 97, 116, 101, 100, 32, 100, 97,
      116, 97, 46, 32, 69, 100, 105, 116, 32, 99, 97, 114, 101, 102,
      117, 108, 108, 121, 46, 60, 47, 110, 111, 105, 110, 99, 108, 117,
      100, 101, 62>>,
       <<123, 123, 35, 115, 119, 105, 116, 99, 104, 58, 123, 123, 108, 99,
      58, 123, 123, 123, 113, 117, 101, 114, 121, 124, 125, 125, 125,
      125, 125>> >>

(* " | default = " and "}}" *)
SwitchFooter == << <<32, 124, 32, 100, 101, 102, 97, 117, 108, 116, 32, 61, 32>>, <<125, 125>> >>

(* The sum is left out of the value. *)
csv_values_without_total(stats_of_query) ==
    [i \in 1..Len(COLOR_ORDER) |-> str(int(get(stats_of_query, COLOR_ORDER[i])))]

(* values, total = sum(values), csv_values = [str(v) for v in values] and  *)
(* csv_values.append(str(total))                                           *)
csv_values(stats_of_query) ==
    LET values == [i \in 1..Len(COLOR_ORDER) |-> int(get(stats_of_query, COLOR_ORDER[i]))]
        total == sum(values)
    IN [i \in 1..Len(values) |-> str(values[i])] \o <<str(total)>>

(* f" | {normalized} = {','.join(csv_values)}" *)
case_line(query, stats_of_query) ==
    <<32, 124, 32>> \o casefold(query) \o <<32, 61, 32>>
        \o Join(csv_values(stats_of_query), <<44>>)

switch_from_mapping(data) ==
    SwitchHeader
    \o [i \in 1..Len(data.keys) |-> case_line(data.keys[i], data.map[data.keys[i]])]
    \o SwitchFooter

(* main after update_data_module returned: lua_code and switch_code are    *)
(* rendered from stats_mapping.                                            *)
Render ==
    /\ spc = "done"
    /\ lua_code' = lua_from_mapping(Dict(results_keys, results))
    /\ switch_code' = switch_from_mapping(Dict(results_keys, results))
    /\ spc' = "rendered"
    /\ UNCHANGED <<input_queries, qi, ci, stats, results, response, sent, error_log,
                   failures, odd, input_file, results_keys, consumed>>
    /\ UNCHANGED beside_stats

CrawlIdle ==
    /\ CrawlStart({})
    /\ wiki = <<>>
    /\ cache_file = MissingFile
    /\ revision_cache = <<>>

RECURSIVE SeqsUpTo(_, _)
SeqsUpTo(S, n) ==
    IF n = 0 THEN {<<>>}
    ELSE LET shorter == SeqsUpTo(S, n - 1)
         IN shorter \cup {Append(t, x) : t \in {u \in shorter : Len(u) = n - 1}, x \in S}

(* The queries are taken in the order of the file, each once. *)
RECURSIVE load_queries_in_file_order(_)
load_queries_in_file_order(file) ==
    IF file = <<>> THEN <<>>
    ELSE LET front == load_queries_in_file_order(SubSeq(file, 1, Len(file) - 1))
         IN IF file[Len(file)] \in Range(front) THEN front
            ELSE Append(front, file[Len(file)])

(* queries = set(json.load(f)); update_data_module(session, sorted(queries)) *)
load_queries(file) == sorted(Range(file))

(* The JSON arrays the input file can hold. *)
InputFiles == SeqsUpTo({QA, QB}, MaxInput)

(* main before it reads the input file. *)
StatsInit ==
    /\ CrawlIdle
    /\ ExtractIdle
    /\ FileIdle
    /\ PairIdle
    /\ input_file \in InputFiles
    /\ input_queries = <<>>
    /\ spc = "start"
    /\ qi = 1
    /\ ci = 1
    /\ stats = <<>>
    /\ results = <<>>
    /\ response = <<>>
    /\ sent = <<>>
    /\ error_log = <<>>
    /\ failures = 0
    /\ odd = 0
    /\ results_keys = <<>>
    /\ consumed = 0
    /\ lua_code = <<>>
    /\ switch_code = <<>>

(* main up to the first request of update_data_module: the file is read   *)
(* and closed, queries = set(json.load(f)), and the loop of               *)
(* update_data_module(session, sorted(queries)) is entered.                *)
LoadQueries ==
    /\ spc = "start"
    /\ input_queries' = load_queries(input_file)
    /\ input_file' = <<>>
    /\ spc' = IF input_queries' = <<>> THEN "done" ELSE "request"
    /\ UNCHANGED <<qi, ci, stats, results, response, sent, error_log, failures, odd,
                   results_keys, consumed, lua_code, switch_code>>
    /\ UNCHANGED beside_stats

StatsNext ==
    \/ LoadQueries
    \/ TransportFailure
    \/ \E r \in Responses : Respond(r)
    \/ Branch
    \/ \E r \in Responses : FallbackRespond(r)
    \/ FallbackBranch
    \/ Render

StatsSpec == StatsInit /\ [][StatsNext]_vars /\ WF_vars(StatsNext)

(* main up to the return of update_data_module. Every call of              *)
(* scryfall_query either raises, and is retried, or returns a response.    *)
UpdateNext ==
    \/ LoadQueries
    \/ TransportFailure
    \/ \E r \in Responses : Respond(r)
    \/ Branch
    \/ \E r \in Responses : FallbackRespond(r)
    \/ FallbackBranch

UpdateSpec == StatsInit /\ [][UpdateNext]_vars /\ WF_vars(UpdateNext)

-----------------------------------------------------------------------------
(* Properties of the crawl.                                                *)

Titles == DOMAIN lookups

(* The queries under which a page is listed in a registry. *)
ListedUnder(qs, page_title) == {s \in DOMAIN qs : page_title \in Range(qs[s])}

(* C2: the cache entry of a page changes in a step if and only if the step *)
(* is the successful extraction of that page, after which the entry holds  *)
(* the page's current revision id and the extracted queries; a timed-out,  *)
(* skipped or not yielded page keeps its entry and no entry is removed.    *)
C2_CacheChangesIffExtracted ==
    [][ /\ DOMAIN revision_cache \subseteq DOMAIN revision_cache'
        /\ \A p \in Titles :
              (Entry(revision_cache', p) # Entry(revision_cache, p))
                  <=> (last'.kind = "extracted" /\ last'.page = p)
        /\ last'.kind = "extracted" =>
              /\ last'.page \in DOMAIN revision_cache'
              /\ revision_cache'[last'.page].rev_id = wiki[last'.page]
              /\ revision_cache'[last'.page].has_queries
              /\ revision_cache'[last'.page].queries = last'.page_queries
      ]_vars

(* A page with a cache entry has just timed out and kept it, while another *)
(* page's entry differs from the one the run loaded.                       *)
C2_Witness ==
    /\ dumps = 0
    /\ last.kind = "timeout"
    /\ last.page \in DOMAIN revision_cache
    /\ revision_cache[last.page] = Entry(load_revision_cache(cache_file), last.page)
    /\ \E p \in Titles :
          Entry(revision_cache, p) # Entry(load_revision_cache(cache_file), p)

(* The cache entry of the page is for its current revision and carries a   *)
(* queries field.                                                          *)
Unchanged(p) ==
    /\ p \in DOMAIN revision_cache
    /\ revision_cache[p].rev_id = wiki[p]
    /\ revision_cache[p].has_queries

(* C3: a newly yielded page whose cache entry is current and carries       *)
(* queries (an empty list too) is not fetched, and is registered under     *)
(* exactly its cached queries; any other newly yielded page is fetched.    *)
C3_SkipIffCachedCurrent ==
    [][ (idx' = idx + 1 /\ last'.page \notin seen_pages) =>
          IF Unchanged(last'.page)
          THEN /\ last'.kind = "skipped"
               /\ fetched' = fetched
               /\ ListedUnder(queries', last'.page) = Range(revision_cache[last'.page].queries)
               /\ \A t \in Titles \ {last'.page} :
                     ListedUnder(queries', t) = ListedUnder(queries, t)
          ELSE /\ last'.kind \in {"extracted", "timeout"}
               /\ fetched'[last'.page] = fetched[last'.page] + 1
      ]_vars

(* A page cached with an empty query list has just been skipped. *)
C3_Witness ==
    /\ last.kind = "skipped"
    /\ last.page_queries = <<>>
    /\ fetched[last.page] = 0
    /\ revision_cache[last.page].rev_id = wiki[last.page]

FilesCurrent ==
    /\ output_file = dump_queries_to_file(queries)
    /\ cache_file = dump_revision_cache(revision_cache)

(* C5, as stated: the registry and the cache are dumped when a template's  *)
(* page iteration ends, and once more after all templates.                 *)
C5_FlushPerTemplate ==
    [][ /\ tmpl' # tmpl => (dumps' = dumps + 1 /\ FilesCurrent')
        /\ (pc = "iter" /\ pc' = "done") => (dumps' = dumps + 1 /\ FilesCurrent')
      ]_vars

(* C5, amended: the registry and the cache are dumped unconditionally      *)
(* once, after all templates have been iterated; the end of one template's *)
(* page iteration alone dumps nothing.                                     *)
C5_FinalFlushOnly ==
    [][ /\ tmpl' # tmpl => UNCHANGED <<dumps, output_file, cache_file>>
        /\ (pc = "iter" /\ pc' = "done") => (dumps' = dumps + 1 /\ FilesCurrent')
      ]_vars

(* The run has ended after extracting a page, with its only dump. *)
C5_Witness ==
    /\ pc = "done"
    /\ dumps = 1
    /\ \E p \in Titles : fetched[p] = 1 /\ registered[p] = 1
    /\ FilesCurrent

(* C6: in one run, for every page title the revision lookup, the           *)
(* extraction attempt and the registration happen at most once.            *)
C6_OncePerPage ==
    \A p \in Titles :
        /\ lookups[p] <= 1
        /\ fetched[p] <= 1
        /\ registered[p] <= 1

(* The second template's listing starts with a page the first template's   *)
(* iteration registered, and the page is passed over.                      *)
C6_Witness ==
    /\ tmpl = Len(TEMPLATES_TO_CHECK)
    /\ idx = 1
    /\ last.kind = "duplicate"
    /\ lookups[last.page] = 1
    /\ registered[last.page] = 1

(* C9: a timeout is logged and skips only its page (nothing is registered  *)
(* for it, the loops go on), and the run ends with the final dumps.        *)
C9_TimeoutSkipsOnePage ==
    /\ [][ last'.kind = "timeout" =>
              /\ last'.page \in timeout_log'
              /\ queries' = queries
              /\ registered' = registered
              /\ pc' = "iter" /\ tmpl' = tmpl
          ]_vars
    /\ [](\A p \in timeout_log : registered[p] = 0 /\ ListedUnder(queries, p) = {})
    /\ <>(pc = "done" /\ FilesCurrent)

(* After a timeout in this run, a later page of the last template has been *)
(* extracted and registered.                                               *)
C9_Witness ==
    /\ timeout_log # {}
    /\ tmpl = Len(TEMPLATES_TO_CHECK)
    /\ last.kind = "extracted"
    /\ last.page \notin timeout_log
    /\ ListedUnder(queries, last.page) # {}

(* The pages extracted in this run whose cache record is not in the cache  *)
(* file.                                                                   *)
NotOnDisk ==
    {p \in Titles :
        /\ fetched[p] = 1
        /\ p \notin timeout_log
        /\ Entry(revision_cache, p) # Entry(load_revision_cache(cache_file), p)}

(* C4: at every point of a run, fewer than 100 successfully extracted      *)
(* pages have results that are not yet on disk.                            *)
C4_FewerThan100NotOnDisk == Cardinality(NotOnDisk) < CheckpointEvery

NoRepeat(seq) == \A i, j \in 1..Len(seq) : seq[i] = seq[j] => i = j

IsPrefix(a, b) == Len(a) <= Len(b) /\ \A i \in 1..Len(a) : a[i] = b[i]

(* C10: every page sequence of the registry holds no title twice, and      *)
(* pages are only ever appended to it (order of first registration).       *)
C10_NoRepeatInOrder ==
    /\ [](\A s \in DOMAIN queries : NoRepeat(queries[s]))
    /\ [][\A s \in DOMAIN queries :
             s \in DOMAIN queries' /\ IsPrefix(queries[s], queries'[s])]_vars

-----------------------------------------------------------------------------
(* Properties of the stats run.                                            *)

ColorKeys == {lower(COLOR_ORDER[i]) : i \in 1..Len(COLOR_ORDER)}

(* A decimal numeral: the string of an integer >= 0. *)
IsCount(v) == Len(v) >= 1 /\ \A i \in 1..Len(v) : v[i] >= 48 /\ v[i] <= 57

(* C1: every mapping stored in the StatsTable has exactly the seven        *)
(* category keys, each holding an integer count >= 0.                      *)
C1_SevenKeys ==
    \A q \in DOMAIN results :
        /\ DOMAIN results[q] = ColorKeys
        /\ \A k \in DOMAIN results[q] : IsCount(results[q][k])

(* The step settles the current category with count n: in stats while the  *)
(* query's categories go on, in the stored table after the last category.  *)
Records(n) ==
    LET k == lower(CurrentColor)
    IN IF ci < Len(COLOR_ORDER)
       THEN k \in DOMAIN stats' /\ stats'[k] = n
       ELSE /\ CurrentQuery \in DOMAIN results'
            /\ k \in DOMAIN results'[CurrentQuery]
            /\ results'[CurrentQuery][k] = str(n)

(* The step goes on with the next category, or with the next query after   *)
(* storing this one's stats, or returns the table after the last query.    *)
GoesOn ==
    \/ /\ ci < Len(COLOR_ORDER)
       /\ ci' = ci + 1 /\ qi' = qi /\ spc' = "request"
    \/ /\ ci = Len(COLOR_ORDER)
       /\ CurrentQuery \in DOMAIN results'
       /\ ci' = 1 /\ qi' = qi + 1
       /\ spc' = IF qi < Len(input_queries) THEN "request" ELSE "done"

(* C7: on the first response of a category, ok records total_cards (0 when *)
(* absent) and 404 records 0, both without an error line; any other status *)
(* that is not a display-options 400 logs an error and records 0. The run  *)
(* goes on each time, and ends with every input query in the table.        *)
C7_FirstResponse ==
    /\ [][ (spc = "branch" /\ ~(response.status_code = 400 /\ response.display_options)) =>
             /\ GoesOn
             /\ IF response.status_code < 400
                THEN /\ Records(IF response.has_total THEN response.total_cards ELSE 0)
                     /\ error_log' = <<>>
                ELSE IF response.status_code = 404
                THEN Records(0) /\ error_log' = <<>>
                ELSE Records(0) /\ Len(error_log') = 1
         ]_vars
    /\ [](spc = "done" => DOMAIN results = Range(input_queries))

(* A 500 has just been logged and its category recorded as 0. *)
C7_Witness ==
    /\ spc = "request"
    /\ ci > 1
    /\ response.status_code = 500
    /\ Len(error_log) = 1
    /\ stats[lower(COLOR_ORDER[ci - 1])] = 0

(* C8: a display-options 400 is followed by exactly one fallback request,  *)
(* for the query without the parentheses; a fallback ok records its        *)
(* total_cards, a fallback 404 records 0, any other fallback response logs *)
(* an error and records 0.                                                 *)
C8_Fallback ==
    [][ /\ (spc = "branch" /\ response.status_code = 400 /\ response.display_options) =>
              spc' = "fallback_request"
        /\ (spc = "fallback_request" /\ spc' # spc) =>
              /\ spc' = "fallback_branch"
              /\ sent' = <<full_query(CurrentQuery, CurrentColor),
                           no_brackets(CurrentQuery, CurrentColor)>>
        /\ spc = "fallback_branch" =>
              /\ GoesOn
              /\ IF response.status_code < 400
                 THEN Records(IF response.has_total THEN response.total_cards ELSE 0)
                 ELSE IF response.status_code = 404
                 THEN Records(0) /\ error_log' = <<>>
                 ELSE Records(0) /\ Len(error_log') = 1
      ]_vars

-----------------------------------------------------------------------------
(* process_page on its own, over every short list of links.               *)

MaxLinks == 2          \* <a href> elements of a page at most

(* The links a page can hold: with and without the signature, with no q,   *)
(* one q or two q parameters, with and without utm_source.                 *)
Links ==
    { Link(sig, q, utm_source) :
        sig \in BOOLEAN,
        q \in {<<>>, <<QA>>, <<QB>>, <<QT>>, <<QX>>, <<QB, QA>>, <<QX, QA>>},
        utm_source \in BOOLEAN }

ExtractInit ==
    /\ CrawlIdle
    /\ StatsIdle
    /\ FileIdle
    /\ PairIdle
    /\ epc = "call"
    /\ html \in SeqsUpTo(Links, MaxLinks)
    /\ extracted = <<>>

(* page_queries = process_page(page) *)
Extract ==
    /\ epc = "call"
    /\ extracted' = process_page(html)
    /\ epc' = "returned"
    /\ UNCHANGED <<html, crawl_vars, stats_vars, file_vars, pair_vars>>

ExtractNext == Extract

ExtractSpec == ExtractInit /\ [][ExtractNext]_vars /\ WF_vars(ExtractNext)

(* The query text of a link: the value of its q parameter (the first one   *)
(* when the href repeats the parameter).                                   *)
QueryText(link) == link.q[1]

(* The links of the page the claim counts. *)
Counted ==
    { i \in 1..Len(html) :
        /\ html[i].sig
        /\ html[i].q # <<>>
        /\ ~html[i].utm_source
        /\ \E k \in 1..Len(QueryText(html[i])) : QueryText(html[i])[k] = 58 }

(* C11: for every list of links, process_page returns exactly the query    *)
(* texts of the links that hold the signature, have a q parameter, have no *)
(* utm_source parameter and whose query text holds a colon; each text once *)
(* (texts that differ in case are different texts), in ascending order.    *)
C11_ExactSortedSet ==
    epc = "returned" =>
        /\ Range(extracted) = {QueryText(html[i]) : i \in Counted}
        /\ \A i \in 1..Len(extracted), j \in 1..Len(extracted) :
              i < j => StrLess(extracted[i], extracted[j])

(* A query link and the same link in the other letter case: both texts     *)
(* come back, the upper-case one first.                                     *)
C11_Witness ==
    /\ epc = "returned"
    /\ html = <<Link(TRUE, <<QB>>, FALSE), Link(TRUE, <<QT>>, FALSE)>>
    /\ extracted = <<QT, QB>>

-----------------------------------------------------------------------------
(* The revision cache file on its own: a mapping is saved over whatever    *)
(* the file held, the save may die half way, and the next run loads.       *)

(* "t:\u00e9" (e acute): a query text outside ASCII *)
QE == <<116, 58, 233>>

FileRecords == CacheRecords \cup {current_revision_record(42, TRUE, <<QE>>)}

FileMaps == UNION {[D -> FileRecords] : D \in SUBSET Pages}

FileInit ==
    /\ CrawlStart({})
    /\ wiki = <<>>
    /\ revision_cache = <<>>
    /\ cache_file \in {MissingFile, MalformedFile, NotAnObjectFile,
                       dump_revision_cache([p \in {1} |->
                           current_revision_record(41, TRUE, <<QA>>)])}
    /\ StatsIdle
    /\ ExtractIdle
    /\ PairIdle
    /\ fpc = "start"
    /\ saved \in FileMaps
    /\ loaded = <<>>

crawl_but_file == <<pc, tmpl, idx, seen_pages, queries, revision_cache,
                    output_file, wiki, last, lookups, fetched, registered,
                    timeout_log, dumps>>

(* dump_revision_cache(revision_cache_path, revision_cache) returns *)
Save ==
    /\ fpc = "start"
    /\ cache_file' = dump_revision_cache(saved)
    /\ fpc' = "saved"
    /\ UNCHANGED <<saved, loaded, crawl_but_file, stats_vars, extract_vars, pair_vars>>

(* The process dies inside dump_revision_cache. *)
CrashDuringSave ==
    /\ fpc = "start"
    /\ cache_file' \in TruncatedFiles(saved)
    /\ fpc' = "crashed"
    /\ UNCHANGED <<saved, loaded, crawl_but_file, stats_vars, extract_vars, pair_vars>>

(* revision_cache = load_revision_cache(revision_cache_path) of a new run *)
Load ==
    /\ fpc \in {"start", "saved", "crashed"}
    /\ IF load_raises(cache_file)
       THEN fpc' = "raised" /\ UNCHANGED loaded
       ELSE fpc' = "loaded" /\ loaded' = load_revision_cache(cache_file)
    /\ last' = Event(fpc, 0, <<>>)
    /\ UNCHANGED <<saved, pc, tmpl, idx, seen_pages, queries, revision_cache,
                   cache_file, output_file, wiki, lookups, fetched, registered,
                   timeout_log, dumps, stats_vars, extract_vars, pair_vars>>

FileNext ==
    \/ Save
    \/ CrashDuringSave
    \/ Load

FileSpec == FileInit /\ [][FileNext]_vars /\ WF_vars(FileNext)

(* C12: a load after a save returns the saved mapping, whatever the file   *)
(* held before; a load of a missing, truncated or otherwise malformed file *)
(* returns the empty mapping and never raises.                             *)
C12_RoundTripOrEmpty ==
    /\ fpc # "raised"
    /\ fpc = "loaded" =>
          IF last.kind = "saved" THEN loaded = saved
          ELSE IF last.kind = "crashed" THEN loaded = <<>>
          ELSE cache_file.state # "json" => loaded = <<>>

-----------------------------------------------------------------------------
(* The renderers on their own, over every small table: up to MaxQueries    *)
(* queries in any order, each with all seven categories, with some of them *)
(* or with none.                                                           *)

MaxQueries == 2        \* queries of a table at most

StatsOfQuery ==
    { [k \in Range(COLOR_ORDER) |-> <<55>>],
      [k \in Range(COLOR_ORDER) |-> IF k = <<99>> THEN <<49, 50>> ELSE <<48>>],
      [k \in {<<99>>, <<109>>} |-> <<55>>],
      <<>> }

TableKeys == {k \in SeqsUpTo({QA, QB, QT}, MaxQueries) : NoRepeat(k)}

RenderInit ==
    /\ CrawlIdle
    /\ ExtractIdle
    /\ FileIdle
    /\ PairIdle
    /\ spc = "done"
    /\ results_keys \in TableKeys
    /\ results \in [Range(results_keys) -> StatsOfQuery]
    /\ input_file = <<>>
    /\ input_queries = <<>>
    /\ qi = 0
    /\ ci = 0
    /\ stats = <<>>
    /\ response = <<>>
    /\ sent = <<>>
    /\ error_log = <<>>
    /\ failures = 0
    /\ odd = 0
    /\ consumed = 0
    /\ lua_code = <<>>
    /\ switch_code = <<>>

RenderNext == Render

RenderSpec == RenderInit /\ [][RenderNext]_vars /\ WF_vars(RenderNext)

(* The categories in the order c, w, u, b, r, g, m. *)
Categories == <<(<<99>>), (<<119>>), (<<117>>), (<<98>>), (<<114>>), (<<103>>), (<<109>>)>>

(* The count the table holds for a category of a query, 0 when it holds    *)
(* none.                                                                   *)
Count(q, k) ==
    IF k \in DOMAIN results[q]
    THEN CHOOSE n \in 0..99 : str(n) = results[q][k]
    ELSE 0

(* The seven counts of a query and then their sum, separated by commas. *)
CaseValue(q) ==
    LET n == [i \in 1..7 |-> Count(q, Categories[i])]
    IN Join([i \in 1..7 |-> str(n[i])]
            \o <<str(n[1] + n[2] + n[3] + n[4] + n[5] + n[6] + n[7])>>, <<44>>)

(* C13: the switch template is the header, then one case line per query in *)
(* table order, whose value is the seven counts in the order c, w, u, b,   *)
(* r, g, m and their sum as the eighth number, then the default case line  *)
(* and the footer; for the empty table it is header, default case, footer. *)
C13_SwitchLines ==
    spc = "rendered" =>
        LET n == Len(results_keys)
        IN /\ Len(switch_code) = n + 4
           /\ SubSeq(switch_code, 1, 2) = SwitchHeader
           /\ \A i \in 1..n :
                 switch_code[i + 2] =
                     <<32, 124, 32>> \o lower(results_keys[i]) \o <<32, 61, 32>>
                         \o CaseValue(results_keys[i])
           /\ switch_code[n + 3] = <<32, 124, 32, 100, 101, 102, 97, 117, 108, 116, 32, 61, 32>>
           /\ switch_code[n + 4] = <<125, 125>>

(* The table of "t:c" and then "a:b" is rendered, the first with 12 cards  *)
(* in c only: its line is " | t:c = 12,0,0,0,0,0,0,12".                    *)
C13_Witness ==
    /\ spc = "rendered"
    /\ results_keys = <<QB, QA>>
    /\ switch_code[3] =
          <<32, 124, 32, 116, 58, 99, 32, 61, 32, 49, 50, 44, 48, 44, 48,
            44, 48, 44, 48, 44, 48, 44, 48, 44, 49, 50>>

(* The table with "0" put in for every category a query lacks. *)
Completed ==
    [q \in DOMAIN results |->
        [k \in Range(Categories) |->
            IF k \in DOMAIN results[q] THEN results[q][k] ELSE <<48>>]]

(* C14: both renderers produce their text for a table with missing         *)
(* categories too, and render a missing category as the literal 0: the Lua *)
(* line of a query is its seven "category = count" chunks with 0 for the   *)
(* missing ones, and the switch text (the total too) is that of the table  *)
(* with 0 put in for them.                                                 *)
C14_MissingAsZero ==
    spc = "rendered" =>
        /\ Len(lua_code) = 3 * Len(results_keys) + 4
        /\ \A i \in 1..Len(results_keys) :
              lua_code[3 * i + 1] =
                  <<32, 32, 32, 32, 32, 32, 32, 32>>
                  \o Join([j \in 1..7 |->
                              Categories[j] \o <<32, 61, 32>>
                                  \o Completed[results_keys[i]][Categories[j]]],
                          <<44, 32>>)
        /\ lua_code = lua_from_mapping(Dict(results_keys, Completed))
        /\ switch_code = switch_from_mapping(Dict(results_keys, Completed))

(* A query without any category is rendered: its Lua line is               *)
(* "        c = 0, w = 0, u = 0, b = 0, r = 0, g = 0, m = 0" and its case  *)
(* line ends with eight zeros.                                             *)
C14_Witness ==
    /\ spc = "rendered"
    /\ results_keys = <<QA>>
    /\ results[QA] = <<>>
    /\ lua_code[4] =
          <<32, 32, 32, 32, 32, 32, 32, 32, 99, 32, 61, 32, 48, 44, 32,
            119, 32, 61, 32, 48, 44, 32, 117, 32, 61, 32, 48, 44, 32, 98,
            32, 61, 32, 48, 44, 32, 114, 32, 61, 32, 48, 44, 32, 103, 32,
            61, 32, 48, 44, 32, 109, 32, 61, 32, 48>>
    /\ switch_code[3] =
          <<32, 124, 32, 97, 58, 98, 32, 61, 32, 48, 44, 48, 44, 48, 44,
            48, 44, 48, 44, 48, 44, 48, 44, 48>>

(* The case lines of the switch text, and the key and the value of one. *)
CaseLines == SubSeq(switch_code, 3, Len(switch_code) - 2)

EqualsAt(line) ==
    CHOOSE k \in 1..Len(line) :
        /\ SubSeq(line, k, k + 2) = <<32, 61, 32>>
        /\ \A j \in 1..(k - 1) : SubSeq(line, j, j + 2) # <<32, 61, 32>>

KeyOf(line) == SubSeq(line, 4, EqualsAt(line) - 1)

ValueOf(line) == SubSeq(line, EqualsAt(line) + 3, Len(line))

(* #switch takes the first case whose key is the looked-up text. *)
Lookup(key) ==
    LET hits == {i \in 1..Len(CaseLines) : KeyOf(CaseLines[i]) = key}
    IN IF hits = {} THEN <<>>
       ELSE ValueOf(CaseLines[CHOOSE i \in hits : \A j \in hits : i <= j])

(* C16, as stated: distinct queries of the table have distinct case keys,  *)
(* there is one case line per query, and the lookup of a query by its      *)
(* lowercased form selects that query's own counts.                        *)
C16_DistinctKeys ==
    spc = "rendered" =>
        /\ Len(CaseLines) = Len(results_keys)
        /\ \A i, j \in 1..Len(CaseLines) :
              i # j => KeyOf(CaseLines[i]) # KeyOf(CaseLines[j])
        /\ \A i \in 1..Len(results_keys) :
              Lookup(lower(results_keys[i])) = CaseValue(results_keys[i])

(* Two query texts that differ in letter case at most. *)
SameUpToCase(a, b) ==
    /\ Len(a) = Len(b)
    /\ \A k \in 1..Len(a) :
          \/ a[k] = b[k]
          \/ a[k] \in 65..90 /\ b[k] = a[k] + 32
          \/ b[k] \in 65..90 /\ a[k] = b[k] + 32

(* C16, amended: there is one case line per query, keyed by the query in   *)
(* lower case and holding that query's counts; two queries have the same   *)
(* case key exactly when they differ in letter case at most, and the       *)
(* lookup of a query's key selects the counts of the first query of the    *)
(* table that differs from it in letter case at most.                      *)
C16_KeysUpToCase ==
    spc = "rendered" =>
        /\ Len(CaseLines) = Len(results_keys)
        /\ \A i \in 1..Len(results_keys) :
              /\ KeyOf(CaseLines[i]) = lower(results_keys[i])
              /\ ValueOf(CaseLines[i]) = CaseValue(results_keys[i])
              /\ LET first == CHOOSE j \in 1..i :
                                /\ SameUpToCase(results_keys[j], results_keys[i])
                                /\ \A h \in 1..(j - 1) :
                                      ~SameUpToCase(results_keys[h], results_keys[i])
                 IN Lookup(KeyOf(CaseLines[i])) = CaseValue(results_keys[first])
        /\ \A i, j \in 1..Len(results_keys) :
              (KeyOf(CaseLines[i]) = KeyOf(CaseLines[j]))
                  <=> SameUpToCase(results_keys[i], results_keys[j])

(* "T:c" with 7 cards in every category and then "t:c" with 12 in c only   *)
(* are rendered under the same key: the lookup of "t:c" selects the first. *)
C16_Witness ==
    /\ spc = "rendered"
    /\ results_keys = <<QT, QB>>
    /\ results[QT] # results[QB]
    /\ KeyOf(CaseLines[1]) = KeyOf(CaseLines[2])
    /\ Lookup(QB) = CaseValue(QT)
    /\ Lookup(QB) # CaseValue(QB)

-----------------------------------------------------------------------------
(* More properties of the stats run.                                       *)

Ascending(seq) == \A i, j \in 1..Len(seq) : i < j => StrLess(seq[i], seq[j])

(* C15: the queries are processed in the ascending order of the distinct   *)
(* queries of the input file, whatever its order and repetitions; for each *)
(* query the categories are requested in the order c, w, u, b, r, g, m;    *)
(* the table is filled in that order of queries, and the entries of both   *)
(* rendered texts follow it.                                               *)
C15_SortedOrder ==
    /\ [](Ascending(input_queries) /\ IsPrefix(results_keys, input_queries))
    /\ [][ /\ spc = "start" => Range(input_queries') = Range(input_file)
           /\ spc # "start" => input_queries' = input_queries
           /\ (spc = "request" /\ spc' = "branch") =>
                sent' = << <<40>> \o input_queries[qi] \o <<41, 32, 105, 100, 61>>
                              \o Categories[ci] >>
           /\ \/ qi' = qi /\ ci' = ci
              \/ qi' = qi /\ ci' = ci + 1
              \/ qi' = qi + 1 /\ ci = Len(Categories) /\ ci' = 1
         ]_vars
    /\ [](spc = "rendered" =>
            /\ results_keys = input_queries
            /\ \A i \in 1..Len(input_queries) :
                  /\ lua_code[3 * i] =
                        <<32, 32, 32, 32, 91, 39>> \o input_queries[i]
                            \o <<39, 93, 32, 61, 32, 123>>
                  /\ KeyOf(switch_code[i + 2]) = lower(input_queries[i]))

(* Two queries have been fetched and rendered in ascending order. *)
C15_Witness ==
    /\ spc = "rendered"
    /\ results_keys = <<QA, QB>>
    /\ KeyOf(switch_code[3]) = QA
    /\ KeyOf(switch_code[4]) = QB

(* C17: a transport failure records nothing and ends nothing: the same     *)
(* request stays pending until a response is received, and the count that  *)
(* is then recorded is the one the status of that response gives, however  *)
(* many failures came before it.                                           *)
C17_FailureIsRetried ==
    [][ /\ failures' > failures =>
              /\ spc \in {"request", "fallback_request"}
              /\ UNCHANGED <<spc, qi, ci, stats, results, results_keys, response,
                             sent, consumed>>
              /\ error_log' = <<>>
        /\ (spc = "request" /\ spc' # spc) =>
              /\ spc' = "branch"
              /\ sent' = <<full_query(CurrentQuery, CurrentColor)>>
        /\ (spc = "branch" /\ ~(response.status_code = 400 /\ response.display_options)) =>
              /\ GoesOn
              /\ Records(IF response.status_code < 400 /\ response.has_total
                         THEN response.total_cards ELSE 0)
      ]_vars

(* The request for the second category has just failed: the first category *)
(* is recorded, the second is not, and the request is still to be answered. *)
C17_Witness ==
    /\ spc = "request"
    /\ failures >= 1
    /\ ci = 2
    /\ DOMAIN stats = {lower(COLOR_ORDER[1])}

(* C18: update_data_module over the queries of the input file returns,     *)
(* with every input query in the table; it receives at most 14 responses   *)
(* per query.                                                              *)
C18_Terminates ==
    /\ <>(spc = "done" /\ DOMAIN results = Range(input_queries))
    /\ [][spc = "start" => Range(input_queries') = Range(input_file)]_vars
    /\ [](consumed <= 2 * Len(Categories))

(* The run over two queries has returned, after two fallback requests for  *)
(* one of them.                                                            *)
C18_Witness ==
    /\ spc = "done"
    /\ Len(input_queries) = 2
    /\ consumed = Len(Categories) + 2

-----------------------------------------------------------------------------
(* More properties of the crawl.                                           *)

(* C20: when the run has ended, every page that was yielded and did not    *)
(* time out has a cache entry with its current revision id and a queries   *)
(* field, and is listed in the registry under exactly the queries of that  *)
(* entry; no key of the registry has an empty page sequence.               *)
C20_CacheMatchesRegistry ==
    /\ pc = "done" =>
          \A p \in seen_pages \ timeout_log :
              /\ p \in DOMAIN revision_cache
              /\ revision_cache[p].rev_id = wiki[p]
              /\ revision_cache[p].has_queries
              /\ ListedUnder(queries, p) = Range(revision_cache[p].queries)
    /\ \A s \in DOMAIN queries : Len(queries[s]) >= 1

(* The run has ended after the fetch of one page timed out and another     *)
(* page was extracted and registered under a query.                        *)
C20_Witness ==
    /\ pc = "done"
    /\ timeout_log # {}
    /\ \E p \in seen_pages \ timeout_log :
          /\ fetched[p] = 1
          /\ revision_cache[p].queries # <<>>
          /\ ListedUnder(queries, p) # {}

-----------------------------------------------------------------------------
(* Two runs over one listing: the first starts from an empty cache, the    *)
(* second from a cache file that holds entries the first run wrote. The    *)
(* wiki, the listings of the templates and the rendered pages are the same *)
(* in both runs, and no fetch times out.                                   *)

MaxListed == 2         \* pages the first template's listing yields at most

PairListings ==
    { <<first, second>> : first \in SeqsUpTo(Pages, MaxListed),
                          second \in SeqsUpTo(Pages, 1) }

(* The rendered pages: no link, one query link, two query links. *)
PairPages ==
    { <<>>,
      <<Link(TRUE, <<QA>>, FALSE)>>,
      <<Link(TRUE, <<QB>>, FALSE), Link(TRUE, <<QA>>, FALSE)>> }

PairInit ==
    /\ CrawlStart(Pages)
    /\ wiki = [p \in Pages |-> 42]
    /\ cache_file = MissingFile
    /\ revision_cache = load_revision_cache(cache_file)
    /\ StatsIdle
    /\ ExtractIdle
    /\ FileIdle
    /\ listing \in PairListings
    /\ content \in [Pages -> PairPages]
    /\ run = 1
    /\ first_run = <<>>

(* The page the generator of the current template yields next. *)
PairListed == IF idx < Len(listing[tmpl]) THEN {listing[tmpl][idx + 1]} ELSE {}

Exhausted == idx = Len(listing[tmpl])

Restrict(cache, titles) == [p \in DOMAIN cache \cap titles |-> cache[p]]

(* The program is started again: main begins anew, with a cache file that  *)
(* holds some of the entries the first run wrote.                          *)
Restart ==
    /\ pc = "done"
    /\ run = 1
    /\ run' = 2
    /\ first_run' = [queries |-> queries, revision_cache |-> revision_cache]
    /\ \E titles \in SUBSET Pages :
          cache_file' = dump_revision_cache(Restrict(revision_cache, titles))
    /\ revision_cache' = load_revision_cache(cache_file')
    /\ pc' = "iter"
    /\ tmpl' = 1
    /\ idx' = 0
    /\ seen_pages' = {}
    /\ queries' = <<>>
    /\ output_file' = NoOutput
    /\ last' = Event("start", 0, <<>>)
    /\ lookups' = [p \in Pages |-> 0]
    /\ fetched' = [p \in Pages |-> 0]
    /\ registered' = [p \in Pages |-> 0]
    /\ timeout_log' = {}
    /\ dumps' = 0
    /\ UNCHANGED <<wiki, listing, content, stats_vars, extract_vars, file_vars>>

PairNext ==
    \/ \E p \in PairListed : Duplicate(p)
    \/ \E p \in PairListed : SkipUnchanged(p)
    \/ \E p \in PairListed : ExtractPage(p, content[p])
    \/ Exhausted /\ NextTemplate
    \/ Exhausted /\ Finish
    \/ Restart

PairSpec == PairInit /\ [][PairNext]_vars /\ WF_vars(PairNext)

(* C19: the run that starts from entries written by earlier extractions of *)
(* the same revisions ends with the registry of the run from an empty      *)
(* cache, and with the same cache entry for every yielded page.            *)
C19_SameAsFromScratch ==
    (pc = "done" /\ run = 2) =>
        /\ queries = first_run.queries
        /\ \A p \in seen_pages :
              Entry(revision_cache, p) = Entry(first_run.revision_cache, p)

(* The second run has ended: it skipped one page on its cache entry and    *)
(* extracted another, and the registry is not empty.                       *)
C19_Witness ==
    /\ pc = "done"
    /\ run = 2
    /\ \E p, t \in seen_pages : fetched[p] = 0 /\ fetched[t] = 1
    /\ DOMAIN queries # {}

====
